---- MODULE Spec2Model ----
(***************************************************************************)
(* Customer support agent: the LangGraph workflow of graph.py, the node    *)
(* functions of nodes.py and the entry point of main.py.                   *)
(*                                                                         *)
(* Conventions of the model                                                *)
(*   - a Python str that is searched (the customer message, the trigger    *)
(*     terms) is a sequence of one-character strings;                      *)
(*   - a Python str that is only compared (a category, a node name) is a   *)
(*     TLA+ string;                                                        *)
(*   - a float confidence is an integer number of thousandths (0.3 is      *)
(*     300); the two-decimal rendering of it is a number of hundredths;    *)
(*   - the text returned by the model is a sequence of tokens: a code      *)
(*     fence, the word json, white space, other text, or one JSON value.   *)
(***************************************************************************)
EXTENDS Integers, Sequences, FiniteSets, TLC

VARIABLES
    state,      \* the CustomerSupportState dict flowing through the graph
    pc,         \* the node the graph is at: START, a node name, END or FAILED
    inv,        \* the activation of invoke_llm_with_retry (the current or last call)
    llm_text,   \* content of the response the classification call returned
    error,      \* the exception that left graph.invoke, "" when none
    trace,      \* the nodes executed for the current request, in order
    requests,   \* number of run_agent calls made by main()'s loop so far
    llm_invokers,   \* the nodes on whose behalf llm.invoke was called, current request
    TICKETS_TABLE,  \* database.py's table of support tickets: ticket number -> row
    inserted,       \* the ticket numbers insert_support_ticket returned, in call order
    cancelled,      \* the caller's deadline has passed during a backoff sleep
    meter,          \* calls of invoke_llm_with_retry, of llm.invoke and of
                    \* time.sleep made for the current request, when observed
    hash_salt,      \* the salt of str hashes of the Python process, when observed
    database,       \* database.py's other tables
    db_result       \* the last call of a query function of database.py and
                    \* what it returned

vars ==
    <<state, pc, inv, llm_text, error, trace, requests, llm_invokers,
      TICKETS_TABLE, inserted, cancelled, meter, hash_salt, database,
      db_result>>

(***************************************************************************)
(* Bounds of the model.                                                    *)
(***************************************************************************)
\* run_agent calls explored in one run of main()'s loop
MaxRequests == 2
\* largest max_retries explored when invoke_llm_with_retry is checked alone
MaxRetriesBound == 4
\* insert_support_ticket calls explored when the ticket table is checked alone
MaxInserts == 2

(***************************************************************************)
(* Program constants.                                                      *)
(***************************************************************************)
\* invoke_llm_with_retry(messages, max_retries=3, initial_delay=5)
DEFAULT_MAX_RETRIES == 3
DEFAULT_INITIAL_DELAY == 5
\* confidence = float(result.get("confidence", 0.5))
DEFAULT_CONFIDENCE == 500
\* the fallback: confidence = 0.3
FALLBACK_CONFIDENCE == 300
\* if confidence < 0.5
LOW_CONFIDENCE_THRESHOLD == 500
\* \d{4,} in handle_delivery
ORDER_ID_MIN_DIGITS == 4

(***************************************************************************)
(* Python str operations on character sequences.                           *)
(***************************************************************************)
UpperCase ==
    <<"A", "B", "C", "D", "E", "F", "G", "H", "I", "J", "K", "L", "M",
      "N", "O", "P", "Q", "R", "S", "T", "U", "V", "W", "X", "Y", "Z">>

LowerCase ==
    <<"a", "b", "c", "d", "e", "f", "g", "h", "i", "j", "k", "l", "m",
      "n", "o", "p", "q", "r", "s", "t", "u", "v", "w", "x", "y", "z">>

Digits == {"0", "1", "2", "3", "4", "5", "6", "7", "8", "9"}

\* str.lower() of one character
LowerTable ==
    [c \in {UpperCase[i] : i \in 1..Len(UpperCase)} |->
        LowerCase[CHOOSE i \in 1..Len(UpperCase) : UpperCase[i] = c]]

LowerChar(c) == IF c \in DOMAIN LowerTable THEN LowerTable[c] ELSE c

\* str.lower()
lower(s) == [i \in 1..Len(s) |-> LowerChar(s[i])]

\* mutant: kw is found at the start of a word only
Contains_AtWordStart(s, kw) ==
    \E i \in 1..(Len(s) - Len(kw) + 1) :
        /\ SubSeq(s, i, i + Len(kw) - 1) = kw
        /\ i = 1 \/ s[i - 1] = " "

\* the Python operator  kw in s  on two str
Contains(s, kw) ==
    \E i \in 1..(Len(s) - Len(kw) + 1) : SubSeq(s, i, i + Len(kw) - 1) = kw

\* [x for x in xs if x in s]
RECURSIVE SelectInOrder(_, _)
SelectInOrder(xs, s) ==
    IF xs = <<>> THEN <<>>
    ELSE IF Contains(s, Head(xs))
         THEN <<Head(xs)>> \o SelectInOrder(Tail(xs), s)
         ELSE SelectInOrder(Tail(xs), s)


(***************************************************************************)
(* Customer messages: the scenarios of test_agent.py (shortened) and the   *)
(* messages a person can type at the prompt of main().                     *)
(***************************************************************************)
\* delivery scenario: "Where is my order #12345?"
MsgDelivery ==
    <<"W", "h", "e", "r", "e", " ", "i", "s", " ", "m", "y", " ", "o", "r",
      "d", "e", "r", " ", "#", "1", "2", "3", "4", "5", "?">>

\* refund scenario: "I want a full refund please."
MsgRefund ==
    <<"I", " ", "w", "a", "n", "t", " ", "a", " ", "f", "u", "l", "l", " ",
      "r", "e", "f", "u", "n", "d", " ", "p", "l", "e", "a", "s", "e", ".">>

\* technical scenario: "The app keeps crashing when I try to checkout."
MsgTechnical ==
    <<"T", "h", "e", " ", "a", "p", "p", " ", "k", "e", "e", "p", "s", " ",
      "c", "r", "a", "s", "h", "i", "n", "g", " ", "w", "h", "e", "n", " ",
      "I", " ", "t", "r", "y", " ", "t", "o", " ", "c", "h", "e", "c", "k",
      "o", "u", "t", ".">>

\* general scenario: "What are your business hours?"
MsgGeneral ==
    <<"W", "h", "a", "t", " ", "a", "r", "e", " ", "y", "o", "u", "r", " ",
      "b", "u", "s", "i", "n", "e", "s", "s", " ", "h", "o", "u", "r", "s",
      "?">>

\* escalation scenario: "This is unacceptable! I'm going to sue you. I want to speak to a manager!"
MsgEscalation ==
    <<"T", "h", "i", "s", " ", "i", "s", " ", "u", "n", "a", "c", "c", "e",
      "p", "t", "a", "b", "l", "e", "!", " ", "I", "'", "m", " ", "g", "o",
      "i", "n", "g", " ", "t", "o", " ", "s", "u", "e", " ", "y", "o", "u",
      ".", " ", "I", " ", "w", "a", "n", "t", " ", "t", "o", " ", "s", "p",
      "e", "a", "k", " ", "t", "o", " ", "a", " ", "m", "a", "n", "a", "g",
      "e", "r", "!">>

\* a trigger term inside a longer word, a short digit run: "I have an issue with order 123"
MsgIssue ==
    <<"I", " ", "h", "a", "v", "e", " ", "a", "n", " ", "i", "s", "s", "u",
      "e", " ", "w", "i", "t", "h", " ", "o", "r", "d", "e", "r", " ", "1",
      "2", "3">>

\* a trigger term in upper case: "GET ME A LAWYER"
MsgShout ==
    <<"G", "E", "T", " ", "M", "E", " ", "A", " ", "L", "A", "W", "Y", "E",
      "R">>

Messages ==
    {MsgDelivery, MsgRefund, MsgTechnical, MsgGeneral, MsgEscalation,
     MsgIssue, MsgShout}

\* the list escalation_keywords of check_escalation, in its order
escalation_keywords ==
    << <<"l", "a", "w", "s", "u", "i", "t">>,
       <<"s", "u", "e">>,
       <<"l", "e", "g", "a", "l">>,
       <<"l", "a", "w", "y", "e", "r">>,
       <<"a", "t", "t", "o", "r", "n", "e", "y">>,
       <<"m", "a", "n", "a", "g", "e", "r">>,
       <<"s", "u", "p", "e", "r", "v", "i", "s", "o", "r">>,
       <<"h", "u", "m", "a", "n", " ", "a", "g", "e", "n", "t">>,
       <<"r", "e", "a", "l", " ", "p", "e", "r", "s", "o", "n">>,
       <<"u", "n", "a", "c", "c", "e", "p", "t", "a", "b", "l", "e">>,
       <<"w", "o", "r", "s", "t", " ", "e", "x", "p", "e", "r", "i", "e", "n", "c", "e">>,
       <<"n", "e", "v", "e", "r", " ", "a", "g", "a", "i", "n">>,
       <<"r", "e", "p", "o", "r", "t">>,
       <<"c", "o", "m", "p", "l", "a", "i", "n", "t">>,
       <<"c", "o", "n", "s", "u", "m", "e", "r", " ", "f", "o", "r", "u", "m">>,
       <<"b", "b", "b">> >>

(***************************************************************************)
(* The text the model returns, and json.loads on it.                       *)
(***************************************************************************)
\* a member of a JSON object: absent, or a value of JSON type t; a string
\* member carries its text s, a number its value n (thousandths), a boolean
\* n = 1 for true and 0 for false
Member(t, s, n) == [t |-> t, s |-> s, n |-> n]
Absent == Member("absent", "", 0)
MStr(s) == Member("str", s, 0)
MNum(n) == Member("num", "", n)
MBool(b) == Member("bool", "", IF b THEN 1 ELSE 0)
MNull == Member("null", "", 0)
MList == Member("list", "", 0)

\* a JSON value: an object with its issue_type and confidence members, or a
\* value of another JSON type
JObject(it, cf) == [kind |-> "object", issue_type |-> it, confidence |-> cf]
JOther(kind) == [kind |-> kind, issue_type |-> Absent, confidence |-> Absent]
NoValue == JOther("none")

\* tokens of a text
Fence == [tok |-> "fence", val |-> NoValue]
JsonTag == [tok |-> "json", val |-> NoValue]
WS == [tok |-> "ws", val |-> NoValue]
Text == [tok |-> "text", val |-> NoValue]
Value(j) == [tok |-> "value", val |-> j]

\* category texts a model can put in issue_type, and their str.lower()
CategoryTexts ==
    {"delivery", "refund", "technical", "general", "Refund", "billing"}

str_lower(s) ==
    CASE s = "Refund" -> "refund"
      [] OTHER -> s

\* confidence values a model can give, in thousandths
ConfidenceValues == {-500, 333, 499, 500, 900, 1500}

\* texts a model can put in a string-typed confidence; float() accepts the
\* first and raises ValueError on the second
ConfidenceTexts == {"0.2", "high"}

IsFloatLiteral(s) == s \in {"0.2"}

FloatOfLiteral(s) ==
    CASE s = "0.2" -> 200
      [] OTHER -> 0

IssueTypeMembers ==
    {Absent, MNull, MNum(1000), MList} \cup {MStr(s) : s \in CategoryTexts}

ConfidenceMembers ==
    {Absent, MNull, MList, MBool(TRUE)}
        \cup {MNum(n) : n \in ConfidenceValues}
        \cup {MStr(s) : s \in ConfidenceTexts}

JObjects == {JObject(it, cf) : it \in IssueTypeMembers, cf \in ConfidenceMembers}

\* the object the prompt asks for, used in the decorated texts
SampleObject == JObject(MStr("refund"), MNum(900))

\* the texts llm.invoke can return to classify_issue
ModelTexts ==
    {<<Value(j)>> : j \in JObjects}
        \cup {<<Value(JOther(k))>> : k \in {"null", "array", "string", "number"}}
        \cup { <<>>,
               <<Text>>,
               <<Text, Value(SampleObject)>>,
               <<Value(SampleObject), Value(SampleObject)>>,
               <<WS, Value(SampleObject), WS>>,
               <<Fence, JsonTag, WS, Value(SampleObject), WS, Fence>>,
               <<Fence, WS, Value(SampleObject), WS, Fence, WS>>,
               <<Fence, Value(SampleObject), Fence>>,
               <<Fence, JsonTag, WS, Value(SampleObject)>>,
               <<Fence, Text, WS, Value(SampleObject), WS, Fence>>,
               <<Fence, JsonTag, WS, Value(JOther("array")), WS, Fence>>,
               <<Fence, JsonTag, WS, Fence>> }

\* the texts llm.invoke can return to generate_response
ResponseTexts == { <<Text>>, <<WS, Text, WS>> }

\* str.strip(): white space removed at both ends
RECURSIVE lstrip(_)
lstrip(s) == IF s # <<>> /\ Head(s) = WS THEN lstrip(Tail(s)) ELSE s

RECURSIVE rstrip(_)
rstrip(s) ==
    IF s # <<>> /\ s[Len(s)] = WS THEN rstrip(SubSeq(s, 1, Len(s) - 1)) ELSE s

strip(s) == rstrip(lstrip(s))

\* re.sub(r"^```(?:json)?\s*", "", raw)
StripOpenFence(raw) ==
    IF raw # <<>> /\ Head(raw) = Fence
    THEN LET rest == Tail(raw)
         IN  IF rest # <<>> /\ Head(rest) = JsonTag
             THEN lstrip(Tail(rest))
             ELSE lstrip(rest)
    ELSE raw

\* re.sub(r"\s*```$", "", raw)
StripCloseFence(raw) ==
    IF raw # <<>> /\ raw[Len(raw)] = Fence
    THEN rstrip(SubSeq(raw, 1, Len(raw) - 1))
    ELSE raw

\* json.loads(raw): the value of a text that is one JSON value with optional
\* white space around it, JSONDecodeError for every other text
json_loads(raw) ==
    LET t == strip(raw)
    IN  IF Len(t) = 1 /\ t[1].tok = "value"
        THEN [ok |-> TRUE, val |-> t[1].val]
        ELSE [ok |-> FALSE, val |-> NoValue]

(***************************************************************************)
(* classify_issue: what it makes of the text the model returned.           *)
(***************************************************************************)
valid_types == {"delivery", "refund", "technical", "general"}

\* the outcome of classify_issue's parsing: raised is the exception that
\* leaves the function, "" when it returns
Outcome(raised, it, cf) == [raised |-> raised, issue_type |-> it, confidence |-> cf]

\* the except clause: issue_type = "general", confidence = 0.3
Fallback == Outcome("", "general", FALLBACK_CONFIDENCE)

\* float(x) on a member of the parsed object: exc is the exception it raises
py_float(m) ==
    CASE m.t = "num" -> [exc |-> "", val |-> m.n]
      [] m.t = "bool" -> [exc |-> "", val |-> m.n * 1000]
      [] m.t = "str" ->
            IF IsFloatLiteral(m.s)
            THEN [exc |-> "", val |-> FloatOfLiteral(m.s)]
            ELSE [exc |-> "ValueError", val |-> 0]
      [] OTHER -> [exc |-> "TypeError", val |-> 0]

\* the try block and its except clause
\*   except (json.JSONDecodeError, ValueError, AttributeError)
CaughtExceptions == {"JSONDecodeError", "ValueError", "AttributeError"}

TryParse(content) ==
    LET raw == StripCloseFence(StripOpenFence(strip(content)))
        parsed == json_loads(raw)
        result == parsed.val
        it == IF result.issue_type = Absent THEN MStr("general") ELSE result.issue_type
        cf == IF result.confidence = Absent THEN MNum(DEFAULT_CONFIDENCE)
              ELSE result.confidence
        exc == IF ~parsed.ok THEN "JSONDecodeError"
               ELSE IF result.kind # "object" THEN "AttributeError"   \* no .get
               ELSE IF it.t # "str" THEN "AttributeError"             \* no .lower
               ELSE py_float(cf).exc
    IN  IF exc = "" THEN Outcome("", str_lower(it.s), py_float(cf).val)
        ELSE IF exc \in CaughtExceptions THEN Fallback
        ELSE Outcome(exc, "", 0)

\* mutant: the validation of issue_type is left out
ValidateIssueType_Skipped(r) == r

\* if issue_type not in valid_types: issue_type = "general"; confidence = 0.3
ValidateIssueType(r) ==
    IF r.issue_type \notin valid_types THEN Fallback ELSE r

\* the update classify_issue returns for the text content, or the exception
ClassifyOutcome(content) ==
    LET r == TryParse(content)
    IN  IF r.raised # "" THEN r ELSE ValidateIssueType(r)

(***************************************************************************)
(* The domain handlers.                                                    *)
(***************************************************************************)
HandlerContext(handler, key, order_id, title) ==
    [handler |-> handler, data_key |-> key, order_id |-> order_id, kb_title |-> title]

\* handler_context = {} of the initial state
EmptyContext == HandlerContext("", "", <<>>, "")

UNKNOWN == <<"U", "N", "K", "N", "O", "W", "N">>

\* number of digits at the start of s
RECURSIVE DigitRun(_)
DigitRun(s) ==
    IF s # <<>> /\ Head(s) \in Digits THEN 1 + DigitRun(Tail(s)) ELSE 0

\* mutant: \d+ in place of \d{4,}, the first digit run of any length
RECURSIVE SearchOrderId_AnyRun(_)
SearchOrderId_AnyRun(s) ==
    IF s = <<>> THEN <<>>
    ELSE IF DigitRun(s) > 0 THEN SubSeq(s, 1, DigitRun(s))
    ELSE SearchOrderId_AnyRun(Tail(s))

\* re.search(r"#?(\d{4,})", s): group 1 of the leftmost match, <<>> when
\* there is no match
RECURSIVE SearchOrderId(_)
SearchOrderId(s) ==
    IF s = <<>> THEN <<>>
    ELSE IF DigitRun(s) >= ORDER_ID_MIN_DIGITS THEN SubSeq(s, 1, DigitRun(s))
    ELSE IF DigitRun(s) > 0 THEN SearchOrderId(SubSeq(s, DigitRun(s) + 1, Len(s)))
    ELSE SearchOrderId(Tail(s))

handle_delivery(st) ==
    LET order_match == SearchOrderId(st.customer_message)
        order_id == IF order_match # <<>> THEN order_match ELSE UNKNOWN
    IN  HandlerContext("delivery", "order_data", order_id, "")

handle_refund(st) == HandlerContext("refund", "refund_data", <<>>, "")

crash == <<"c", "r", "a", "s", "h">>
crashing == <<"c", "r", "a", "s", "h", "i", "n", "g">>
login == <<"l", "o", "g", "i", "n">>
password == <<"p", "a", "s", "s", "w", "o", "r", "d">>
payment == <<"p", "a", "y", "m", "e", "n", "t">>
checkout == <<"c", "h", "e", "c", "k", "o", "u", "t">>

handle_technical(st) ==
    LET customer_message == lower(st.customer_message)
        title ==
            IF Contains(customer_message, crash) \/ Contains(customer_message, crashing)
            THEN "App Crashing - Troubleshooting Steps"
            ELSE IF Contains(customer_message, login)
                    \/ Contains(customer_message, password)
            THEN "Login Issues - Resolution Guide"
            ELSE IF Contains(customer_message, payment)
                    \/ Contains(customer_message, checkout)
            THEN "Payment / Checkout Issues"
            ELSE "General Technical Troubleshooting"
    IN  HandlerContext("technical", "kb_article", <<>>, title)

handle_general(st) == HandlerContext("general", "faq_data", <<>>, "")

(***************************************************************************)
(* check_escalation.                                                       *)
(***************************************************************************)
\* f"{confidence:.2f}": the confidence rounded to hundredths.  No value of
\* ConfidenceValues lies halfway between two hundredths, where the result
\* would depend on the binary representation of the float.
Format2f(confidence) == (confidence + 5) \div 10

LowConfidenceReason(confidence) ==
    [kind |-> "Low classification confidence", shown |-> Format2f(confidence),
     keywords |-> <<>>]

KeywordsReason(found) ==
    [kind |-> "Sensitive keywords detected", shown |-> 0, keywords |-> found]

\* [kw for kw in escalation_keywords if kw in customer_message]
found_keywords(customer_message) ==
    SelectInOrder(escalation_keywords, customer_message)

\* escalate = False; reasons = []
NoDecision == [escalate |-> FALSE, reasons |-> <<>>]

\* mutant: the low-confidence trigger compares with 0.4
LowConfidenceTrigger_Below04(d, confidence) ==
    IF confidence < 400
    THEN [escalate |-> TRUE,
          reasons |-> Append(d.reasons, LowConfidenceReason(confidence))]
    ELSE d

\* mutant: the low-confidence trigger fires at 0.5 too
LowConfidenceTrigger_AtMost(d, confidence) ==
    IF confidence <= LOW_CONFIDENCE_THRESHOLD
    THEN [escalate |-> TRUE,
          reasons |-> Append(d.reasons, LowConfidenceReason(confidence))]
    ELSE d

\* Trigger 1: if confidence < 0.5: escalate = True; reasons.append(...)
LowConfidenceTrigger(d, confidence) ==
    IF confidence < LOW_CONFIDENCE_THRESHOLD
    THEN [escalate |-> TRUE,
          reasons |-> Append(d.reasons, LowConfidenceReason(confidence))]
    ELSE d

\* mutant: the keyword trigger records its reason and forgets escalate = True
KeywordTrigger_ReasonOnly(d, found) ==
    IF found # <<>>
    THEN [escalate |-> d.escalate,
          reasons |-> Append(d.reasons, KeywordsReason(found))]
    ELSE d

\* mutant: the keyword trigger is an elif of the low-confidence trigger
KeywordTrigger_ElseIf(d, found) ==
    IF found # <<>> /\ ~d.escalate
    THEN [escalate |-> TRUE, reasons |-> Append(d.reasons, KeywordsReason(found))]
    ELSE d

\* Trigger 2: if found_keywords: escalate = True; reasons.append(...)
KeywordTrigger(d, found) ==
    IF found # <<>>
    THEN [escalate |-> TRUE, reasons |-> Append(d.reasons, KeywordsReason(found))]
    ELSE d

\* mutant: the trigger terms are looked for in the message as typed
check_escalation_NoLower(st) ==
    LET confidence == st.confidence
        found == found_keywords(st.customer_message)
        d == KeywordTrigger(LowConfidenceTrigger(NoDecision, confidence), found)
    IN  [escalate |-> d.escalate, escalation_reason |-> d.reasons]

\* the update check_escalation returns; escalation_reason is the sequence of
\* the reasons that "; ".join makes one string of, the empty sequence for ""
check_escalation(st) ==
    LET confidence == st.confidence
        customer_message == lower(st.customer_message)
        found == found_keywords(customer_message)
        d == KeywordTrigger(LowConfidenceTrigger(NoDecision, confidence), found)
    IN  [escalate |-> d.escalate, escalation_reason |-> d.reasons]

(***************************************************************************)
(* generate_response and escalate_to_human.                                *)
(***************************************************************************)
Response(kind, text, issue_type, reason, reference) ==
    [kind |-> kind, text |-> text, issue_type |-> issue_type,
     escalation_reason |-> reason, reference |-> reference]

\* response = "" of the initial state
EmptyResponse == Response("", <<>>, "", <<>>, 0)

\* {"response": response.content.strip()}
generate_response(content) == Response("generated", strip(content), "", <<>>, 0)

\* str.title() of a category
title(s) ==
    CASE s = "delivery" -> "Delivery"
      [] s = "refund" -> "Refund"
      [] s = "technical" -> "Technical"
      [] s = "general" -> "General"
      [] OTHER -> s

\* values hash(customer_message) can take: the hash of a str is salted per
\* process, so the model knows no more of it than that it is an integer
RawHashes == {42, 10042, -4711}

\* the salt of a process whose hashes are not observed: hash() is any value
AnySalt == 0

\* the salts (PYTHONHASHSEED, drawn at start-up) of the observed processes
HashSalts == {-7, 7, 11}

\* hash(s) in a process with the given salt: a function of the salt and of
\* the characters of s
str_hash(salt, s) == salt * Len(s)

\* the values hash(customer_message) can have
HashValues(salt, s) == IF salt = AnySalt THEN RawHashes ELSE {str_hash(salt, s)}

\* the fixed template with Issue Type, Escalation Reason and
\* Reference ID: ESC-2026-{hash(customer_message) % 10000:04d}
escalate_to_human(st, h) ==
    Response("escalation", <<>>, title(st.issue_type), st.escalation_reason,
             h % 10000)

(***************************************************************************)
(* invoke_llm_with_retry.                                                  *)
(***************************************************************************)
\* exceptions llm.invoke can raise: what they are, and whether str(e) holds
\* "429" or "RESOURCE_EXHAUSTED"
QuotaError == [what |-> "rate_limit", has429 |-> TRUE, hasExhausted |-> TRUE]
TimeoutError == [what |-> "other", has429 |-> FALSE, hasExhausted |-> FALSE]
BadRequestError == [what |-> "other", has429 |-> TRUE, hasExhausted |-> FALSE]
NoError == [what |-> "", has429 |-> FALSE, hasExhausted |-> FALSE]

LLMErrors == {QuotaError, TimeoutError, BadRequestError}

\* if "429" in str(e) or "RESOURCE_EXHAUSTED" in str(e)
IsRateLimit(e) == e.has429 \/ e.hasExhausted

RECURSIVE Pow2(_)
Pow2(n) == IF n = 0 THEN 1 ELSE 2 * Pow2(n - 1)

\* mutant: the exponent is one too large
Delay_ExponentOffByOne(initial_delay, attempt) == initial_delay * Pow2(attempt + 1)

\* delay = initial_delay * (2 ** attempt)
Delay(initial_delay, attempt) == initial_delay * Pow2(attempt)

\* mutant: the backoff of the response call goes on where a classification
\* call that used all its retries left off
Activation_BackoffGoesOn(caller, max_retries, initial_delay) ==
    [caller |-> caller, status |-> "running", max_retries |-> max_retries,
     initial_delay |-> IF caller = "generate_response"
                       THEN initial_delay * Pow2(max_retries)
                       ELSE initial_delay,
     attempt |-> 0, calls |-> <<>>, sleeps |-> <<>>, raised |-> NoError,
     result |-> <<>>]

\* an activation of invoke_llm_with_retry: attempt is the number of passes of
\* the for loop made so far, calls the outcomes of llm.invoke in order,
\* sleeps the arguments of time.sleep in order
Activation(caller, max_retries, initial_delay) ==
    [caller |-> caller, status |-> "running", max_retries |-> max_retries,
     initial_delay |-> initial_delay, attempt |-> 0, calls |-> <<>>,
     sleeps |-> <<>>, raised |-> NoError, result |-> <<>>]

NoActivation ==
    [caller |-> "", status |-> "idle", max_retries |-> 0, initial_delay |-> 0,
     attempt |-> 0, calls |-> <<>>, sleeps |-> <<>>, raised |-> NoError]

\* mutant: the loop makes one pass more than max_retries
InLoop_OneMore(a) == a.attempt <= a.max_retries

\* for attempt in range(max_retries): a pass of the loop is still to come
InLoop(a) == a.attempt < a.max_retries

\* llm.invoke raised e inside the loop and e is taken for a rate limit:
\* sleep, then the next pass
Retry(a, e) ==
    [a EXCEPT !.calls = Append(@, e.what),
              !.sleeps = Append(@, Delay(a.initial_delay, a.attempt)),
              !.status = "sleeping",
              !.attempt = @ + 1]

\* time.sleep(delay) returns: the next pass of the loop, or the final attempt
WakeUp(a) == [a EXCEPT !.status = "running"]

\* llm.invoke returned: invoke_llm_with_retry returns its result
Return(a, content) ==
    [a EXCEPT !.calls = Append(@, "ok"), !.status = "returned", !.result = content]

\* llm.invoke raised e and e leaves invoke_llm_with_retry: the raise of the
\* else branch, or any exception of the final attempt after the loop
Propagates(a, e) == ~InLoop(a) \/ ~IsRateLimit(e)

Raise(a, e) ==
    [a EXCEPT !.calls = Append(@, e.what), !.status = "raised", !.raised = e]

(***************************************************************************)
(* database.py: the tables and the query functions.  A row keeps the       *)
(* columns the callers and the properties look at; order identifiers,      *)
(* keywords and tags are character sequences.                              *)
(***************************************************************************)
Order12345 == <<"1", "2", "3", "4", "5">>
Order67890 == <<"6", "7", "8", "9", "0">>

OrderRow(order_id, customer_id, status, carrier) ==
    [order_id |-> order_id, customer_id |-> customer_id, status |-> status,
     carrier |-> carrier]

ORDERS_TABLE ==
    [id \in {Order12345, Order67890} |->
        IF id = Order12345
        THEN OrderRow(Order12345, "CUST-0042", "in_transit", "FedEx")
        ELSE OrderRow(Order67890, "CUST-0042", "delivered", "BlueDart")]

CUSTOMERS_TABLE ==
    [id \in {"CUST-0042"} |-> [customer_id |-> "CUST-0042", tier |-> "gold"]]

REFUND_POLICIES_TABLE ==
    [id \in {"default"} |->
        [policy_id |-> "POL-001", refund_method |-> "Original payment method"]]

RefundRow(refund_id, order_id, status, reason) ==
    [refund_id |-> refund_id, order_id |-> order_id, status |-> status,
     reason |-> reason]

REFUND_REQUESTS_TABLE ==
    [id \in {Order67890} |->
        RefundRow("REF-2026-0023", Order67890, "eligible", "defective_product")]

Article(key, article_id, article_title, tags) ==
    [key |-> key, article_id |-> article_id, title |-> article_title,
     tags |-> tags]

\* the rows of the knowledge base in the order of the dict
Article_app_crash ==
    Article("app_crash", "KB-1001", "App Crashing - Troubleshooting Steps",
        << <<"c", "r", "a", "s", "h">>,
           <<"c", "r", "a", "s", "h", "i", "n", "g">>,
           <<"a", "p", "p">>,
           <<"f", "r", "e", "e", "z", "e">>,
           <<"n", "o", "t", " ", "r", "e", "s", "p", "o", "n", "d", "i", "n",
             "g">> >>)

Article_login_issue ==
    Article("login_issue", "KB-1002", "Login Issues - Resolution Guide",
        << <<"l", "o", "g", "i", "n">>,
           <<"p", "a", "s", "s", "w", "o", "r", "d">>,
           <<"s", "i", "g", "n", " ", "i", "n">>,
           <<"l", "o", "c", "k", "e", "d", " ", "o", "u", "t">>,
           <<"f", "o", "r", "g", "o", "t", " ", "p", "a", "s", "s", "w", "o",
             "r", "d">> >>)

Article_payment_issue ==
    Article("payment_issue", "KB-1003", "Payment / Checkout Issues",
        << <<"p", "a", "y", "m", "e", "n", "t">>,
           <<"c", "h", "e", "c", "k", "o", "u", "t">>,
           <<"c", "a", "r", "d">>,
           <<"d", "e", "c", "l", "i", "n", "e", "d">>,
           <<"t", "r", "a", "n", "s", "a", "c", "t", "i", "o", "n", " ", "f",
             "a", "i", "l", "e", "d">> >>)

Article_general_tech ==
    Article("general_tech", "KB-1004", "General Technical Troubleshooting",
        << <<"b", "r", "o", "w", "s", "e", "r">>,
           <<"e", "r", "r", "o", "r">>,
           <<"b", "u", "g">>,
           <<"g", "l", "i", "t", "c", "h">>,
           <<"n", "o", "t", " ", "w", "o", "r", "k", "i", "n", "g">> >>)

KB_ARTICLES_TABLE ==
    <<Article_app_crash, Article_login_issue, Article_payment_issue,
      Article_general_tech>>

Faq(key, faq_id, category) == [key |-> key, faq_id |-> faq_id, category |-> category]

\* the rows of the FAQ table in the order of the dict
FAQ_TABLE ==
    <<Faq("business_hours", "FAQ-001", "general"),
      Faq("contact", "FAQ-002", "general"),
      Faq("shipping", "FAQ-003", "shipping"),
      Faq("stores", "FAQ-004", "general"),
      Faq("returns", "FAQ-005", "returns")>>

\* the tables of the module other than TICKETS_TABLE, as loaded
Tables ==
    [ORDERS_TABLE |-> ORDERS_TABLE, CUSTOMERS_TABLE |-> CUSTOMERS_TABLE,
     REFUND_POLICIES_TABLE |-> REFUND_POLICIES_TABLE,
     REFUND_REQUESTS_TABLE |-> REFUND_REQUESTS_TABLE,
     KB_ARTICLES_TABLE |-> KB_ARTICLES_TABLE, FAQ_TABLE |-> FAQ_TABLE]

\* the dict a query function returns: status, rows_returned, data and, for
\* query_kb_article, match_score
Envelope(status, rows_returned, data, match_score) ==
    [status |-> status, rows_returned |-> rows_returned, data |-> data,
     match_score |-> match_score]

\* random.choice([...]) of the synthesized order
RandomStatuses == {"in_transit", "processing", "shipped"}
RandomCarriers == {"FedEx", "BlueDart", "Delhivery", "DTDC"}

\* mutant: an order that is not stored is reported as not found
query_order_by_id_NotFound(db, order_id, rnd) ==
    IF order_id \in DOMAIN db.ORDERS_TABLE
    THEN Envelope("found", 1, db.ORDERS_TABLE[order_id], 0)
    ELSE Envelope("not_found", 0, OrderRow(<<>>, "", "", ""), 0)

\* query_order_by_id: the stored row, or a row made up for the identifier;
\* rnd holds the draws of random.choice
query_order_by_id(db, order_id, rnd) ==
    IF order_id \in DOMAIN db.ORDERS_TABLE
    THEN Envelope("found", 1, db.ORDERS_TABLE[order_id], 0)
    ELSE Envelope("found", 1,
                  OrderRow(order_id, "CUST-UNKNOWN", rnd.status, rnd.carrier), 0)

query_refund_policy(db) == Envelope("found", 1, db.REFUND_POLICIES_TABLE["default"], 0)

\* query_refund_eligibility: the stored request, or "not_found" with a row
\* made up for the identifier (it has no refund_id)
query_refund_eligibility(db, order_id) ==
    IF order_id \in DOMAIN db.REFUND_REQUESTS_TABLE
    THEN Envelope("found", 1, db.REFUND_REQUESTS_TABLE[order_id], 0)
    ELSE Envelope("not_found", 0,
                  RefundRow("", order_id, "eligible", "within_return_window"), 0)

\* sum(1 for kw in keywords if kw in article["tags"])
TagScore(article, keywords) ==
    Cardinality({i \in DOMAIN keywords :
                    \E j \in DOMAIN article.tags : article.tags[j] = keywords[i]})

\* mutant: a later article with the same score replaces the best match
KbBetter_OrEqual(score, best_score) == score >= best_score

\* if score > best_score
KbBetter(score, best_score) == score > best_score

\* best_match = None; best_score = 0
NoMatch == [found |-> FALSE, article |-> Article("", "", "", <<>>), score |-> 0]

\* for key, article in KB_ARTICLES_TABLE.items(): ...
RECURSIVE KbScan(_, _, _)
KbScan(articles, keywords, best) ==
    IF articles = <<>> THEN best
    ELSE LET article == Head(articles)
             score == TagScore(article, keywords)
         IN  KbScan(Tail(articles), keywords,
                    IF KbBetter(score, best.score)
                    THEN [found |-> TRUE, article |-> article, score |-> score]
                    ELSE best)

\* KB_ARTICLES_TABLE["general_tech"]
ArticleByKey(articles, key) ==
    articles[CHOOSE i \in DOMAIN articles : articles[i].key = key]

query_kb_article(db, keywords) ==
    LET best == KbScan(db.KB_ARTICLES_TABLE, keywords, NoMatch)
    IN  IF best.found
        THEN Envelope("found", 1, best.article, best.score)
        ELSE Envelope("found", 1,
                      ArticleByKey(db.KB_ARTICLES_TABLE, "general_tech"), 0)

\* query_faqs: list(FAQ_TABLE.values())
query_faqs(db) == Envelope("found", Len(db.FAQ_TABLE), db.FAQ_TABLE, 0)

\* the call a query function was last made with and what it returned
Query(name, order_id, keywords, result) ==
    [query |-> name, order_id |-> order_id, keywords |-> keywords,
     result |-> result]

NoQuery == Query("", <<>>, <<>>, Envelope("", 0, <<>>, 0))

\* mutant: a lookup empties the FAQ table
Lookup_ClearsFaqs(db, result) ==
    [db |-> [db EXCEPT !.FAQ_TABLE = <<>>], result |-> result]

\* a query function returns its result and assigns to no table
Lookup(db, result) == [db |-> db, result |-> result]

(***************************************************************************)
(* The graph of build_graph.                                               *)
(***************************************************************************)
Handlers == {"handle_delivery", "handle_refund", "handle_technical", "handle_general"}
\* mutant: the handlers and check_escalation ask the model too
LLMNodes_WithHandlers ==
    {"classify_issue", "generate_response", "handle_delivery", "handle_refund",
     "handle_technical", "handle_general", "check_escalation"}

\* mutant: escalate_to_human asks the model too
LLMNodes_WithEscalation ==
    {"classify_issue", "generate_response", "escalate_to_human"}

\* the nodes that call invoke_llm_with_retry
LLMNodes == {"classify_issue", "generate_response"}
Nodes ==
    {"classify_issue", "check_escalation", "generate_response", "escalate_to_human"}
        \cup Handlers

\* mutant: the routing map has no entry for refund
route_by_issue_type_NoRefund(st) ==
    CASE st.issue_type = "delivery" -> "handle_delivery"
      [] st.issue_type = "technical" -> "handle_technical"
      [] OTHER -> "handle_general"

\* routing_map.get(issue_type, "handle_general")
route_by_issue_type(st) ==
    CASE st.issue_type = "delivery" -> "handle_delivery"
      [] st.issue_type = "refund" -> "handle_refund"
      [] st.issue_type = "technical" -> "handle_technical"
      [] st.issue_type = "general" -> "handle_general"
      [] OTHER -> "handle_general"

\* mutant: the two branches are swapped
route_escalation_Swapped(st) ==
    IF st.escalate THEN "generate_response" ELSE "escalate_to_human"

route_escalation(st) ==
    IF st.escalate THEN "escalate_to_human" ELSE "generate_response"

\* mutant: an escalation for low confidence alone goes back to classify_issue
NextNode_Reclassify(node, st) ==
    CASE node = "START" -> "classify_issue"
      [] node = "classify_issue" -> route_by_issue_type(st)
      [] node \in Handlers -> "check_escalation"
      [] node = "check_escalation" ->
            IF st.escalate /\ Len(st.escalation_reason) = 1
                           /\ st.escalation_reason[1].keywords = <<>>
            THEN "classify_issue"
            ELSE route_escalation(st)
      [] node \in {"generate_response", "escalate_to_human"} -> "END"

\* the node the compiled graph runs after node, given the state node left
NextNode(node, st) ==
    CASE node = "START" -> "classify_issue"
      [] node = "classify_issue" -> route_by_issue_type(st)
      [] node \in Handlers -> "check_escalation"
      [] node = "check_escalation" -> route_escalation(st)
      [] node \in {"generate_response", "escalate_to_human"} -> "END"

\* initial_state of run_agent
initial_state(message) ==
    [customer_message |-> message, issue_type |-> "", confidence |-> 0,
     handler_context |-> EmptyContext, response |-> EmptyResponse,
     escalate |-> FALSE, escalation_reason |-> <<>>]

(***************************************************************************)
(* The state machine: main()'s loop calling run_agent, graph.invoke        *)
(* running the nodes, invoke_llm_with_retry calling llm.invoke.            *)
(***************************************************************************)
NoFailure == [stage |-> "", what |-> ""]

\* mutant: the exception of the model call is swallowed
Failure_Swallowed(stage, what) == NoFailure

\* the exception that leaves graph.invoke and run_agent: no node and no
\* caller up to main() catches it
Failure(stage, what) == [stage |-> stage, what |-> what]

\* mutant: the response stage also clears the escalation reason
WriteResponse_ClearsReason(st, response) ==
    [st EXCEPT !.response = response, !.escalation_reason = <<>>]

\* return {"response": ...}: the graph merges the one key into the state
WriteResponse(st, response) == [st EXCEPT !.response = response]

\* TICKETS_TABLE = {}
NoTickets == [n \in {} |-> {}]

\* the meter of a run that does not observe the calls, and the meter of an
\* observed request before its first call
Unmetered == [on |-> FALSE, invoker_calls |-> <<>>, invocations |-> 0, sleeps |-> 0]
NoUsage == [on |-> TRUE, invoker_calls |-> <<>>, invocations |-> 0, sleeps |-> 0]

\* response = invoke_llm_with_retry(messages) in the node caller
MeterCall(m, caller) ==
    IF m.on THEN [m EXCEPT !.invoker_calls = Append(@, caller)] ELSE m

\* llm.invoke(messages)
MeterInvocation(m) == IF m.on THEN [m EXCEPT !.invocations = @ + 1] ELSE m

\* time.sleep(delay)
MeterSleep(m) == IF m.on THEN [m EXCEPT !.sleeps = @ + 1] ELSE m

\* the graph enters node: a node that calls the model calls
\* invoke_llm_with_retry once
Entering(m, node) == IF node \in LLMNodes THEN MeterCall(m, node) ELSE m

\* the graph moves to node: a node that calls the model starts its call of
\* invoke_llm_with_retry with the default arguments; a is the activation left
Goto(node, a) ==
    /\ pc' = node
    /\ trace' = IF node \in Nodes THEN Append(trace, node) ELSE trace
    /\ inv' = IF node \in LLMNodes
              THEN Activation(node, DEFAULT_MAX_RETRIES, DEFAULT_INITIAL_DELAY)
              ELSE a

Init ==
    /\ \E m \in Messages : state = initial_state(m)
    /\ pc = "START"
    /\ inv = NoActivation
    /\ llm_text = <<>>
    /\ error = NoFailure
    /\ trace = <<>>
    /\ requests = 1
    /\ llm_invokers = {}
    /\ TICKETS_TABLE = NoTickets
    /\ inserted = <<>>
    /\ cancelled = FALSE
    /\ meter = Unmetered
    /\ hash_salt = AnySalt
    /\ database = Tables
    /\ db_result = NoQuery

\* graph.invoke(initial_state): the edge START -> classify_issue
Start ==
    /\ pc = "START"
    /\ Goto(NextNode("START", state), inv)
    /\ meter' = Entering(meter, pc')
    /\ UNCHANGED <<state, llm_text, error, requests, llm_invokers>>
    /\ UNCHANGED <<TICKETS_TABLE, inserted, cancelled, hash_salt, database, db_result>>

\* llm.invoke raises e in the loop, e is taken for a rate limit: sleep and retry
RateLimited(e) ==
    /\ inv.status = "running"
    /\ InLoop(inv)
    /\ IsRateLimit(e)
    /\ inv' = Retry(inv, e)
    /\ llm_invokers' = llm_invokers \cup {inv.caller}
    /\ meter' = MeterSleep(MeterInvocation(meter))
    /\ UNCHANGED <<state, pc, llm_text, error, trace, requests>>
    /\ UNCHANGED <<TICKETS_TABLE, inserted, cancelled, hash_salt, database, db_result>>

\* time.sleep(delay) returns and the loop goes on
SleepReturns ==
    /\ inv.status = "sleeping"
    /\ inv' = WakeUp(inv)
    /\ UNCHANGED <<state, pc, llm_text, error, trace, requests, llm_invokers>>
    /\ UNCHANGED <<TICKETS_TABLE, inserted, cancelled, meter, hash_salt, database, db_result>>

\* llm.invoke raises e and e leaves invoke_llm_with_retry, the node and
\* graph.invoke
Raises(e) ==
    /\ inv.status = "running"
    /\ Propagates(inv, e)
    /\ inv' = Raise(inv, e)
    /\ error' = Failure(inv.caller, e.what)
    /\ llm_invokers' = llm_invokers \cup {inv.caller}
    /\ meter' = MeterInvocation(meter)
    /\ UNCHANGED <<state, pc, llm_text, trace, requests>>
    /\ UNCHANGED <<TICKETS_TABLE, inserted, cancelled, hash_salt, database, db_result>>

\* llm.invoke returns content to classify_issue, which parses it
ClassifyReturns(content) ==
    /\ pc = "classify_issue"
    /\ inv.status = "running"
    /\ llm_text' = content
    /\ LET r == ClassifyOutcome(content)
       IN  IF r.raised # ""
           THEN /\ error' = Failure("classify_issue", r.raised)
                /\ inv' = Return(inv, content)
                /\ meter' = MeterInvocation(meter)
                /\ UNCHANGED <<state, pc, trace>>
           ELSE /\ state' = [state EXCEPT !.issue_type = r.issue_type,
                                          !.confidence = r.confidence]
                /\ Goto(NextNode("classify_issue", state'), NoActivation)
                /\ meter' = Entering(MeterInvocation(meter), pc')
                /\ UNCHANGED error
    /\ llm_invokers' = llm_invokers \cup {inv.caller}
    /\ UNCHANGED <<requests, TICKETS_TABLE, inserted, cancelled, hash_salt, database, db_result>>

HandleDelivery ==
    /\ pc = "handle_delivery"
    /\ state' = [state EXCEPT !.handler_context = handle_delivery(state)]
    /\ Goto(NextNode(pc, state'), inv)
    /\ meter' = Entering(meter, pc')
    /\ UNCHANGED <<llm_text, error, requests, llm_invokers>>
    /\ UNCHANGED <<TICKETS_TABLE, inserted, cancelled, hash_salt, database, db_result>>

HandleRefund ==
    /\ pc = "handle_refund"
    /\ state' = [state EXCEPT !.handler_context = handle_refund(state)]
    /\ Goto(NextNode(pc, state'), inv)
    /\ meter' = Entering(meter, pc')
    /\ UNCHANGED <<llm_text, error, requests, llm_invokers>>
    /\ UNCHANGED <<TICKETS_TABLE, inserted, cancelled, hash_salt, database, db_result>>

HandleTechnical ==
    /\ pc = "handle_technical"
    /\ state' = [state EXCEPT !.handler_context = handle_technical(state)]
    /\ Goto(NextNode(pc, state'), inv)
    /\ meter' = Entering(meter, pc')
    /\ UNCHANGED <<llm_text, error, requests, llm_invokers>>
    /\ UNCHANGED <<TICKETS_TABLE, inserted, cancelled, hash_salt, database, db_result>>

HandleGeneral ==
    /\ pc = "handle_general"
    /\ state' = [state EXCEPT !.handler_context = handle_general(state)]
    /\ Goto(NextNode(pc, state'), inv)
    /\ meter' = Entering(meter, pc')
    /\ UNCHANGED <<llm_text, error, requests, llm_invokers>>
    /\ UNCHANGED <<TICKETS_TABLE, inserted, cancelled, hash_salt, database, db_result>>

CheckEscalation ==
    /\ pc = "check_escalation"
    /\ LET u == check_escalation(state)
       IN  state' = [state EXCEPT !.escalate = u.escalate,
                                  !.escalation_reason = u.escalation_reason]
    /\ Goto(NextNode(pc, state'), inv)
    /\ meter' = Entering(meter, pc')
    /\ UNCHANGED <<llm_text, error, requests, llm_invokers>>
    /\ UNCHANGED <<TICKETS_TABLE, inserted, cancelled, hash_salt, database, db_result>>

\* llm.invoke returns content to generate_response
GenerateReturns(content) ==
    /\ pc = "generate_response"
    /\ inv.status = "running"
    /\ state' = WriteResponse(state, generate_response(content))
    /\ Goto(NextNode(pc, state'), NoActivation)
    /\ llm_invokers' = llm_invokers \cup {inv.caller}
    /\ meter' = Entering(MeterInvocation(meter), pc')
    /\ UNCHANGED <<llm_text, error, requests>>
    /\ UNCHANGED <<TICKETS_TABLE, inserted, cancelled, hash_salt, database, db_result>>

EscalateToHuman ==
    /\ pc = "escalate_to_human"
    /\ \E h \in HashValues(hash_salt, state.customer_message) :
          state' = WriteResponse(state, escalate_to_human(state, h))
    /\ Goto(NextNode(pc, state'), inv)
    /\ meter' = Entering(meter, pc')
    /\ UNCHANGED <<llm_text, error, requests, llm_invokers>>
    /\ UNCHANGED <<TICKETS_TABLE, inserted, cancelled, hash_salt, database, db_result>>

\* main(): the result or the error is printed and the next message is read
NextRequest(m) ==
    /\ pc = "END" \/ error # NoFailure
    /\ requests < MaxRequests
    /\ requests' = requests + 1
    /\ state' = initial_state(m)
    /\ pc' = "START"
    /\ inv' = NoActivation
    /\ llm_text' = <<>>
    /\ error' = NoFailure
    /\ trace' = <<>>
    /\ llm_invokers' = {}
    /\ meter' = IF meter.on THEN NoUsage ELSE Unmetered
    /\ UNCHANGED <<TICKETS_TABLE, inserted, cancelled, hash_salt, database, db_result>>

Next ==
    \/ Start
    \/ \E e \in LLMErrors : RateLimited(e)
    \/ SleepReturns
    \/ \E e \in LLMErrors : Raises(e)
    \/ \E content \in ModelTexts : ClassifyReturns(content)
    \/ HandleDelivery
    \/ HandleRefund
    \/ HandleTechnical
    \/ HandleGeneral
    \/ CheckEscalation
    \/ \E content \in ResponseTexts : GenerateReturns(content)
    \/ EscalateToHuman
    \/ \E m \in Messages : NextRequest(m)

Spec == Init /\ [][Next]_vars

\* the same run with the calls of every request observed
InitMetered ==
    /\ \E m \in Messages : state = initial_state(m)
    /\ pc = "START"
    /\ inv = NoActivation
    /\ llm_text = <<>>
    /\ error = NoFailure
    /\ trace = <<>>
    /\ requests = 1
    /\ llm_invokers = {}
    /\ TICKETS_TABLE = NoTickets
    /\ inserted = <<>>
    /\ cancelled = FALSE
    /\ meter = NoUsage
    /\ hash_salt = AnySalt
    /\ database = Tables
    /\ db_result = NoQuery

SpecMetered == InitMetered /\ [][Next]_vars

(***************************************************************************)
(* escalate_to_human called on its own, on the states check_escalation     *)
(* sends to it, in processes with different hash salts.                    *)
(***************************************************************************)
InitEscalate ==
    /\ \E m \in Messages, it \in valid_types,
          confidence \in {FALLBACK_CONFIDENCE, DEFAULT_CONFIDENCE} :
          LET st == [initial_state(m) EXCEPT !.issue_type = it,
                                            !.confidence = confidence]
              u == check_escalation(st)
          IN  /\ u.escalate
              /\ state = [st EXCEPT !.escalate = u.escalate,
                                    !.escalation_reason = u.escalation_reason]
              /\ trace = <<"classify_issue", route_by_issue_type(st),
                           "check_escalation", "escalate_to_human">>
    /\ pc = "escalate_to_human"
    /\ inv = NoActivation
    /\ llm_text = <<>>
    /\ error = NoFailure
    /\ requests = 1
    /\ llm_invokers = {"classify_issue"}
    /\ TICKETS_TABLE = NoTickets
    /\ inserted = <<>>
    /\ cancelled = FALSE
    /\ meter = Unmetered
    /\ hash_salt \in HashSalts
    /\ database = Tables
    /\ db_result = NoQuery

SpecEscalate == InitEscalate /\ [][EscalateToHuman]_vars

(***************************************************************************)
(* invoke_llm_with_retry called on its own, with any max_retries and       *)
(* initial_delay.                                                          *)
(***************************************************************************)
InitialDelays == {1, 3, 5}

InitInvoker ==
    /\ state = initial_state(MsgGeneral)
    /\ pc = "invoke_llm_with_retry"
    /\ \E mr \in 0..MaxRetriesBound, d \in InitialDelays :
          inv = Activation("invoke_llm_with_retry", mr, d)
    /\ llm_text = <<>>
    /\ error = NoFailure
    /\ trace = <<>>
    /\ requests = 1
    /\ llm_invokers = {}
    /\ TICKETS_TABLE = NoTickets
    /\ inserted = <<>>
    /\ cancelled = FALSE
    /\ meter = Unmetered
    /\ hash_salt = AnySalt
    /\ database = Tables
    /\ db_result = NoQuery

\* llm.invoke returns content and invoke_llm_with_retry returns it
InvokerReturns(content) ==
    /\ pc = "invoke_llm_with_retry"
    /\ inv.status = "running"
    /\ inv' = Return(inv, content)
    /\ llm_invokers' = llm_invokers \cup {inv.caller}
    /\ meter' = MeterInvocation(meter)
    /\ UNCHANGED <<state, pc, llm_text, error, trace, requests>>
    /\ UNCHANGED <<TICKETS_TABLE, inserted, cancelled, hash_salt, database, db_result>>

\* the deadline of the caller of invoke_llm_with_retry passes while
\* time.sleep(delay) blocks: the function takes no deadline and no
\* cancellation token, and nothing in it looks at the clock
DeadlinePasses ==
    /\ pc = "invoke_llm_with_retry"
    /\ inv.status = "sleeping"
    /\ ~cancelled
    /\ cancelled' = TRUE
    /\ UNCHANGED <<state, pc, inv, llm_text, error, trace, requests>>
    /\ UNCHANGED <<llm_invokers, TICKETS_TABLE, inserted, meter, hash_salt, database, db_result>>

NextInvoker ==
    \/ \E e \in LLMErrors : RateLimited(e)
    \/ SleepReturns
    \/ \E e \in LLMErrors : Raises(e)
    \/ \E content \in ResponseTexts : InvokerReturns(content)
    \/ DeadlinePasses

SpecInvoker == InitInvoker /\ [][NextInvoker]_vars

\* llm.invoke returns or raises, and time.sleep returns, after a finite time
SpecInvokerFair == SpecInvoker /\ WF_vars(NextInvoker)

(***************************************************************************)
(* database.py: insert_support_ticket called on its own.                   *)
(***************************************************************************)
\* random.randint(1000, 9999)
TICKET_NUMBER_MIN == 1000
TICKET_NUMBER_MAX == 9999

\* the numbers random.randint is let to draw
TicketNumbers == {TICKET_NUMBER_MIN, TICKET_NUMBER_MIN + 1, TICKET_NUMBER_MAX}

\* f"TKT-2026-{n}"
TicketId(n) == [prefix |-> "TKT-2026-", number |-> n]

\* ["sue", "legal", "lawyer"]
priority_keywords ==
    << <<"s", "u", "e">>,
       <<"l", "e", "g", "a", "l">>,
       <<"l", "a", "w", "y", "e", "r">> >>

\* mutant: the message is searched as typed, not in lower case
Priority_NoLower(customer_message) ==
    IF \E i \in DOMAIN priority_keywords :
          Contains(customer_message, priority_keywords[i])
    THEN "high"
    ELSE "medium"

\* "high" if any(kw in customer_message.lower() for kw in [...]) else "medium"
Priority(customer_message) ==
    IF \E i \in DOMAIN priority_keywords :
          Contains(lower(customer_message), priority_keywords[i])
    THEN "high"
    ELSE "medium"

\* the row insert_support_ticket builds (the two timestamps left out)
Ticket(n, customer_message, issue_type, escalation_reason, handler_context) ==
    [ticket_id |-> TicketId(n), customer_message |-> customer_message,
     issue_type |-> issue_type, escalation_reason |-> escalation_reason,
     priority |-> Priority(customer_message), status |-> "open",
     assigned_to |-> "None", handler_context |-> handler_context]

\* TICKETS_TABLE[ticket_id] = ticket
StoreTicket(table, ticket) ==
    [id \in DOMAIN table \cup {ticket.ticket_id} |->
        IF id = ticket.ticket_id THEN ticket ELSE table[id]]

\* the messages and categories insert_support_ticket is called with
TicketMessages == {MsgIssue, MsgGeneral, MsgShout}
TicketIssueTypes == {"refund", "general"}

InitTickets ==
    /\ state = initial_state(MsgGeneral)
    /\ pc = "insert_support_ticket"
    /\ inv = NoActivation
    /\ llm_text = <<>>
    /\ error = NoFailure
    /\ trace = <<>>
    /\ requests = 1
    /\ llm_invokers = {}
    /\ TICKETS_TABLE = NoTickets
    /\ inserted = <<>>
    /\ cancelled = FALSE
    /\ meter = Unmetered
    /\ hash_salt = AnySalt
    /\ database = Tables
    /\ db_result = NoQuery

\* insert_support_ticket(customer_message, issue_type, escalation_reason,
\* handler_context), random.randint drawing n
InsertSupportTicket(customer_message, issue_type, n) ==
    /\ pc \in {"insert_support_ticket", "database"}
    /\ Len(inserted) < MaxInserts
    /\ LET st == [initial_state(customer_message) EXCEPT
                     !.issue_type = issue_type,
                     !.confidence = FALLBACK_CONFIDENCE]
           ticket == Ticket(n, customer_message, issue_type,
                            check_escalation(st).escalation_reason,
                            handle_general(st))
       IN  /\ TICKETS_TABLE' = StoreTicket(TICKETS_TABLE, ticket)
           /\ inserted' = Append(inserted, ticket.ticket_id)
    /\ UNCHANGED <<state, pc, inv, llm_text, error, trace, requests>>
    /\ UNCHANGED <<llm_invokers, cancelled, meter, hash_salt, database, db_result>>

NextTickets ==
    \E m \in TicketMessages, it \in TicketIssueTypes, n \in TicketNumbers :
        InsertSupportTicket(m, it, n)

SpecTickets == InitTickets /\ [][NextTickets]_vars

(***************************************************************************)
(* Properties.                                                             *)
(***************************************************************************)
\* classify_issue has returned its update for the current request
Classified == pc \notin {"START", "classify_issue", "invoke_llm_with_retry"}

\* llm.invoke has returned a text to classify_issue for the current request
TextReturned ==
    \/ Classified
    \/ pc = "classify_issue" /\ inv.status = "returned"

\* check_escalation has run for the current request
EscalationChecked == pc \in {"generate_response", "escalate_to_human", "END"}

\* the text does not give a usable category: it does not parse, it is not an
\* object, or its issue_type is missing, not a string, or (in lower case) none
\* of the four categories
CategoryUnusable(content) ==
    LET parsed == json_loads(StripCloseFence(StripOpenFence(strip(content))))
        it == parsed.val.issue_type
    IN  \/ ~parsed.ok
        \/ parsed.val.kind # "object"
        \/ it.t # "str"
        \/ str_lower(it.s) \notin {"delivery", "refund", "technical", "general"}

\* C1: in every state after the classification stage, whatever text the
\* model returned, issue_type is one of delivery, refund, technical, general.
C1_IssueTypeInEnumeration ==
    Classified => state.issue_type \in {"delivery", "refund", "technical", "general"}

\* C1 witness: the model named a category outside the enumeration and the
\* request went on with general
C1_Witness ==
    /\ Classified
    /\ llm_text = <<Value(JObject(MStr("billing"), MNum(900)))>>
    /\ state.issue_type = "general"

\* C2: every text a successful model invocation returns is recovered inside
\* classify_issue: the only failures of the classification stage are failures
\* of the invocation itself, classify_issue never raises on a returned text.
C2_MalformedOutputRecovered ==
    error.stage = "classify_issue" => inv.status = "raised"

\* C3: whenever the returned text gives no usable category, classify_issue
\* returns exactly issue_type = general and confidence = 0.3.
C3_FallbackIsGeneral03 ==
    (TextReturned /\ CategoryUnusable(llm_text)) =>
        /\ Classified
        /\ state.issue_type = "general"
        /\ state.confidence = FALLBACK_CONFIDENCE

\* C4: after the classification stage the confidence of the workflow state
\* lies in [0.0, 1.0].
C4_ConfidenceInUnitInterval ==
    Classified => (0 <= state.confidence /\ state.confidence <= 1000)

\* the members of a sequence
Range(s) == {s[i] : i \in 1..Len(s)}

\* C5: the stages of a request run in the fixed order classify_issue, one
\* domain handler, check_escalation, one of generate_response and
\* escalate_to_human, then END; no stage runs twice and none is re-entered.
C5_StagesInFixedOrder ==
    /\ Len(trace) <= 4
    /\ Len(trace) >= 1 => trace[1] = "classify_issue"
    /\ Len(trace) >= 2 => trace[2] \in Handlers
    /\ Len(trace) >= 3 => trace[3] = "check_escalation"
    /\ Len(trace) >= 4 => trace[4] \in {"generate_response", "escalate_to_human"}
    /\ pc \in Nodes => trace # <<>> /\ trace[Len(trace)] = pc
    /\ pc = "END" => Len(trace) = 4

\* C5 witness: a request that ran to completion through generate_response
C5_Witness ==
    /\ pc = "END"
    /\ trace = <<"classify_issue", "handle_delivery", "check_escalation",
                 "generate_response">>

\* C6: after check_escalation, escalate_to_human runs exactly when escalate
\* is true and generate_response exactly when it is false, never both, and in
\* the final state escalate tells which of the two wrote the response.
C6_EscalateFlagSelectsBranch ==
    /\ EscalationChecked =>
          /\ "escalate_to_human" \in Range(trace) <=> state.escalate
          /\ "generate_response" \in Range(trace) <=> ~state.escalate
    /\ ~({"escalate_to_human", "generate_response"} \subseteq Range(trace))
    /\ pc = "END" =>
          /\ state.response.kind = "escalation" <=> state.escalate
          /\ state.response.kind = "generated" <=> ~state.escalate

\* C6 witness: a completed request whose response escalate_to_human wrote
C6_Witness ==
    /\ pc = "END"
    /\ state.escalate
    /\ state.response.kind = "escalation"
    /\ "escalate_to_human" \in Range(trace)

\* C7: in every state of the workflow escalate is true exactly when the
\* recorded escalation reasons are not empty.
C7_EscalateIffReasons ==
    state.escalate <=> state.escalation_reason # <<>>

\* C7 witness: check_escalation has escalated for a trigger term alone
C7_Witness ==
    /\ EscalationChecked
    /\ state.confidence >= LOW_CONFIDENCE_THRESHOLD
    /\ state.escalate
    /\ Len(state.escalation_reason) = 1

\* C8 as stated: for every confidence below 0.5 and every message,
\* check_escalation sets escalate and records a low-confidence reason whose
\* number is that confidence.
C8_ReasonShowsTheConfidence ==
    (EscalationChecked /\ state.confidence < 500) =>
        /\ state.escalate
        /\ \E r \in Range(state.escalation_reason) :
              /\ r.kind = "Low classification confidence"
              /\ 10 * r.shown = state.confidence

\* C8 amended: for every confidence below 0.5 and every message,
\* check_escalation sets escalate and records a low-confidence reason that
\* shows the confidence rounded to two decimals (0.499 is shown as 0.50).
C8_LowConfidenceEscalates ==
    (EscalationChecked /\ state.confidence < 500) =>
        /\ state.escalate
        /\ \E r \in Range(state.escalation_reason) :
              /\ r.kind = "Low classification confidence"
              /\ 10 * r.shown - 5 <= state.confidence
              /\ state.confidence < 10 * r.shown + 5

\* C8 witness: a confidence just below 0.5, a message without trigger term
C8_Witness ==
    /\ EscalationChecked
    /\ state.confidence = 499
    /\ state.customer_message = MsgGeneral
    /\ state.escalate
    /\ state.escalation_reason = <<LowConfidenceReason(499)>>

\* some trigger term occurs in the lower-cased message
TriggerTermOccurs ==
    \E kw \in Range(escalation_keywords) : Contains(lower(state.customer_message), kw)

\* C9: check_escalation sets escalate exactly when confidence < 0.5 or a
\* trigger term occurs in the lower-cased message: a trigger term escalates
\* whatever the confidence, and a confidence of 0.5 or more without trigger
\* term does not.
C9_EscalateIffTriggerFired ==
    EscalationChecked =>
        (state.escalate <=> (state.confidence < 500 \/ TriggerTermOccurs))

\* C9 witness: a confidence of exactly 0.5 and no trigger term: no escalation
C9_Witness ==
    /\ pc = "generate_response"
    /\ state.confidence = 500
    /\ ~TriggerTermOccurs
    /\ ~state.escalate

\* C10: when llm.invoke fails with a rate-limit error k times and then
\* succeeds, k <= max_retries, invoke_llm_with_retry returns the result after
\* exactly k sleeps of initial_delay * 2^i, i = 0..k-1, in that order.
C10_BackoffDelays ==
    LET k == Len(inv.calls) - 1
    IN  (/\ inv.status = "returned"
         /\ \A i \in 1..k : inv.calls[i] = "rate_limit") =>
            /\ k <= inv.max_retries
            /\ inv.result \in ResponseTexts
            /\ Len(inv.sleeps) = k
            /\ \A i \in 1..k : inv.sleeps[i] = inv.initial_delay * (2 ^ (i - 1))

\* C10 witness: max_retries = 3, two rate-limit failures, then success, with
\* sleeps of initial_delay and 2 * initial_delay
C10_Witness ==
    /\ inv.status = "returned"
    /\ inv.max_retries = 3
    /\ inv.initial_delay = 5
    /\ inv.calls = <<"rate_limit", "rate_limit", "ok">>
    /\ inv.sleeps = <<5, 10>>

\* C11: an invocation that fails with an error that is no rate-limit error
\* ends invoke_llm_with_retry at once, at whichever attempt: it is the last
\* invocation, the error is raised to the caller, no sleep follows it, and
\* when it is the first invocation no sleep occurred at all.
C11_OtherErrorPropagatesAtOnce ==
    \A i \in DOMAIN inv.calls :
        inv.calls[i] = "other" =>
            /\ i = Len(inv.calls)
            /\ inv.status = "raised"
            /\ Len(inv.sleeps) = i - 1

\* every invocation of the activation failed with a rate-limit error
AllRateLimited(a) == \A i \in DOMAIN a.calls : a.calls[i] = "rate_limit"

\* C12: for every max_retries >= 0 invoke_llm_with_retry invokes the model
\* at most max_retries + 1 times and sleeps at most max_retries times; when
\* every invocation fails with a rate-limit error it sleeps exactly
\* max_retries times, invokes exactly max_retries + 1 times and the last
\* failure is raised to the caller; and every call of it ends, by a return
\* or by a raise.
C12_ExhaustionRaisesAfterMaxRetries ==
    /\ [](/\ Len(inv.calls) <= inv.max_retries + 1
          /\ Len(inv.sleeps) <= inv.max_retries
          /\ (AllRateLimited(inv) /\ Len(inv.calls) = inv.max_retries + 1) =>
                /\ inv.status = "raised"
                /\ inv.raised = QuotaError
          /\ (AllRateLimited(inv) /\ inv.status = "raised") =>
                /\ Len(inv.calls) = inv.max_retries + 1
                /\ Len(inv.sleeps) = inv.max_retries)
    /\ <>(inv.status \in {"returned", "raised"})

\* C12 witness: max_retries = 3, four rate-limit failures, three sleeps, and
\* the fourth failure raised
C12_Witness ==
    /\ inv.max_retries = 3
    /\ inv.calls = <<"rate_limit", "rate_limit", "rate_limit", "rate_limit">>
    /\ Len(inv.sleeps) = 3
    /\ inv.status = "raised"
    /\ inv.raised = QuotaError

\* C13: when a call of invoke_llm_with_retry raises (an error that is no
\* rate limit, or the rate limit of the final attempt) in classify_issue or
\* in generate_response, the request fails as a unit: the exception leaves
\* graph.invoke, the graph stays at the failing node, no response is
\* written, END is not reached, and the only step that follows is the next
\* request of main()'s loop.  Conversely a request that reaches END has no
\* failure and carries a response written by generate_response or by
\* escalate_to_human.
C13_FailureAbortsRequest ==
    /\ [](/\ inv.status = "raised" =>
                /\ inv.caller \in LLMNodes
                /\ error = [stage |-> inv.caller, what |-> inv.raised.what]
                /\ pc = inv.caller
                /\ trace[Len(trace)] = inv.caller
                /\ state.response = EmptyResponse
          /\ error # NoFailure => pc = "classify_issue" \/ pc = "generate_response"
          /\ pc = "END" =>
                /\ error = NoFailure
                /\ \/ /\ state.response.kind = "generated"
                      /\ trace[Len(trace)] = "generate_response"
                   \/ /\ state.response.kind = "escalation"
                      /\ trace[Len(trace)] = "escalate_to_human")
    /\ [][error # NoFailure => (requests' = requests + 1 /\ pc' = "START")]_vars

\* C13 witness: the response stage used up its retries on rate limits and
\* the request failed after classification, handler and escalation check
C13_Witness ==
    /\ error = [stage |-> "generate_response", what |-> "rate_limit"]
    /\ inv.status = "raised"
    /\ Len(inv.sleeps) = DEFAULT_MAX_RETRIES
    /\ trace = <<"classify_issue", "handle_refund", "check_escalation",
                 "generate_response">>

\* C14: a request on the escalation branch invokes the model for its
\* classification only: when escalate_to_human runs and after it has run,
\* every llm.invoke of the request was made on behalf of classify_issue and
\* no call of invoke_llm_with_retry is open.
C14_EscalationInvokesNoModel ==
    (pc = "escalate_to_human" \/ (pc = "END" /\ state.escalate)) =>
        /\ llm_invokers = {"classify_issue"}
        /\ inv.status = "idle"
        /\ "generate_response" \notin Range(trace)

\* C14 witness: an escalated request is complete, with the acknowledgement
\* as its response
C14_Witness ==
    /\ pc = "END"
    /\ state.escalate
    /\ state.response.kind = "escalation"
    /\ trace[Len(trace)] = "escalate_to_human"
    /\ llm_invokers = {"classify_issue"}

\* C15: a request that completes on the escalation branch has created one
\* ticket and a request on the normal branch none: when an escalated request
\* is at END the ticket table holds a ticket for its message, and after the
\* first completed request the table holds one ticket when the request was
\* escalated and none otherwise.
C15_TicketPerEscalatedRequest ==
    pc = "END" =>
        /\ state.escalate =>
              \E id \in DOMAIN TICKETS_TABLE :
                  TICKETS_TABLE[id].customer_message = state.customer_message
        /\ requests = 1 =>
              Cardinality(DOMAIN TICKETS_TABLE) = IF state.escalate THEN 1 ELSE 0

\* C16: every call of insert_support_ticket returns a ticket identifier
\* that no earlier call returned: after n calls the ticket table holds n
\* tickets, none of them overwritten.
C16_TicketIdsUnique ==
    /\ Cardinality(DOMAIN TICKETS_TABLE) = Len(inserted)
    /\ \A i, j \in DOMAIN inserted : i # j => inserted[i] # inserted[j]

\* the handler node of a category value
HandlerOf(issue_type) ==
    CASE issue_type = "delivery" -> "handle_delivery"
      [] issue_type = "refund" -> "handle_refund"
      [] issue_type = "technical" -> "handle_technical"
      [] OTHER -> "handle_general"

\* C17: route_by_issue_type maps delivery, refund, technical and general to
\* their own handlers and every other category value to handle_general,
\* whatever the rest of the state; the handler the graph enters is the one
\* of the classified issue_type, and in a completed request the handler tag
\* of handler_context equals issue_type.
C17_RouterTotalAndHandlerMatches ==
    /\ \A v \in CategoryTexts \cup {"", "unknown"} :
          /\ route_by_issue_type([state EXCEPT !.issue_type = v]) \in Handlers
          /\ route_by_issue_type([state EXCEPT !.issue_type = v]) = HandlerOf(v)
          /\ v \notin valid_types =>
                route_by_issue_type([state EXCEPT !.issue_type = v]) = "handle_general"
    /\ pc \in Handlers => pc = HandlerOf(state.issue_type)
    /\ Len(trace) >= 2 => trace[2] = HandlerOf(state.issue_type)
    /\ pc = "END" =>
          /\ state.handler_context.handler = state.issue_type
          /\ state.issue_type \in valid_types

\* C17 witness: a request classified as refund went through handle_refund
\* and is complete with the handler tag refund
C17_Witness ==
    /\ pc = "END"
    /\ state.issue_type = "refund"
    /\ trace[2] = "handle_refund"
    /\ state.handler_context.handler = "refund"

\* C18: within a request each stage writes its own fields only: issue_type
\* and confidence change in a step of classify_issue only, handler_context
\* in a step of a handler only, escalate and escalation_reason in the step
\* of check_escalation only, response in a step of generate_response or
\* escalate_to_human only, and customer_message in no step; so no stage
\* changes a field an earlier stage wrote.
C18_StagesWriteOwnFields ==
    [][requests' = requests =>
        /\ state'.customer_message = state.customer_message
        /\ pc # "classify_issue" =>
              /\ state'.issue_type = state.issue_type
              /\ state'.confidence = state.confidence
        /\ pc \notin Handlers => state'.handler_context = state.handler_context
        /\ pc # "check_escalation" =>
              /\ state'.escalate = state.escalate
              /\ state'.escalation_reason = state.escalation_reason
        /\ pc \notin {"generate_response", "escalate_to_human"} =>
              state'.response = state.response]_vars

\* C18 witness: a completed request in which every stage has written its
\* fields
C18_Witness ==
    /\ pc = "END"
    /\ state.customer_message = MsgEscalation
    /\ state.issue_type = "refund"
    /\ state.confidence = 900
    /\ state.handler_context = handle_refund(state)
    /\ state.escalate
    /\ state.escalation_reason # <<>>
    /\ state.response.kind = "escalation"

\* C19: once the caller's deadline has passed during a backoff sleep of
\* invoke_llm_with_retry, the model is not invoked again and no further
\* stage of the workflow runs.
C19_CancellationStopsTheCall ==
    [][cancelled => (inv'.calls = inv.calls /\ trace' = trace)]_vars

\* C20: when confidence < 0.5 and at least one trigger term occurs in the
\* lower-cased message, the escalation reason holds exactly two reasons, the
\* low-confidence reason first and the keyword reason second, and the
\* keyword reason lists exactly the trigger terms that occur, each once, in
\* the order of the list escalation_keywords.
C20_BothTriggersRecorded ==
    (EscalationChecked /\ state.confidence < 500 /\ TriggerTermOccurs) =>
        LET r == state.escalation_reason
        IN  /\ Len(r) = 2
            /\ r[1].kind = "Low classification confidence"
            /\ r[2].kind = "Sensitive keywords detected"
            /\ Range(r[2].keywords) =
                  {kw \in Range(escalation_keywords) :
                      Contains(lower(state.customer_message), kw)}
            /\ r[2].keywords =
                  SelectInOrder(escalation_keywords, lower(state.customer_message))
            /\ \A i, j \in DOMAIN r[2].keywords :
                  i # j => r[2].keywords[i] # r[2].keywords[j]

\* C20 witness: confidence 0.3 and a message with the trigger terms sue and
\* manager
C20_Witness ==
    /\ EscalationChecked
    /\ state.confidence = 300
    /\ state.customer_message = MsgEscalation
    /\ Len(state.escalation_reason) = 2
    /\ Len(state.escalation_reason[2].keywords) >= 2

\* C21: per request invoke_llm_with_retry is called once by classify_issue,
\* never by a handler or by check_escalation, and once by generate_response
\* on the normal branch and not at all on the escalation branch; every
\* llm.invoke of a completed request beyond these calls' successful ones is
\* a failed invocation that was followed by a sleep, so a normal-branch
\* request that completes without failures makes exactly two invocations.
C21_OneInvokerCallPerStage ==
    /\ meter.invoker_calls =
          IF pc = "START" THEN <<>>
          ELSE IF "generate_response" \in Range(trace)
               THEN <<"classify_issue", "generate_response">>
               ELSE <<"classify_issue">>
    /\ pc \in Handlers \cup {"check_escalation", "escalate_to_human"} =>
          /\ inv.status = "idle"
          /\ meter.invoker_calls = <<"classify_issue">>
    /\ (pc = "END" /\ ~state.escalate) =>
          /\ meter.invoker_calls = <<"classify_issue", "generate_response">>
          /\ meter.invocations = 2 + meter.sleeps
    /\ (pc = "END" /\ state.escalate) =>
          /\ meter.invoker_calls = <<"classify_issue">>
          /\ meter.invocations = 1 + meter.sleeps

\* C21 witness: a normal-branch request completed without a failed
\* invocation, after two invocations
C21_Witness ==
    /\ pc = "END"
    /\ ~state.escalate
    /\ state.response.kind = "generated"
    /\ meter.sleeps = 0
    /\ meter.invocations = 2

\* the lower-cased message holds "sue", "legal" or "lawyer"
LegalThreat(customer_message) ==
    \/ Contains(lower(customer_message), <<"s", "u", "e">>)
    \/ Contains(lower(customer_message), <<"l", "e", "g", "a", "l">>)
    \/ Contains(lower(customer_message), <<"l", "a", "w", "y", "e", "r">>)

\* C22: the ticket a call of insert_support_ticket stores has priority high
\* exactly when the lower-cased message holds "sue", "legal" or "lawyer" and
\* medium otherwise, has status open, and holds the message, the category
\* and the escalation reason the call was given.
C22_TicketPriorityAndContents ==
    [][\A m \in TicketMessages, it \in TicketIssueTypes, n \in TicketNumbers :
          InsertSupportTicket(m, it, n) =>
              LET ticket == TICKETS_TABLE'[TicketId(n)]
              IN  /\ ticket.priority = IF LegalThreat(m) THEN "high" ELSE "medium"
                  /\ ticket.status = "open"
                  /\ ticket.customer_message = m
                  /\ ticket.issue_type = it
                  /\ ticket.escalation_reason =
                        check_escalation(
                            [initial_state(m) EXCEPT
                                !.confidence = FALLBACK_CONFIDENCE]).escalation_reason
                  /\ ticket.ticket_id = inserted'[Len(inserted')]]_vars

\* C22 witness: the table holds a high ticket for a message typed in upper
\* case and a medium ticket for a message without legal vocabulary
C22_Witness ==
    \E a, b \in DOMAIN TICKETS_TABLE :
        /\ TICKETS_TABLE[a].customer_message = MsgShout
        /\ TICKETS_TABLE[a].priority = "high"
        /\ TICKETS_TABLE[b].customer_message = MsgGeneral
        /\ TICKETS_TABLE[b].priority = "medium"
        /\ TICKETS_TABLE[b].status = "open"

\* C23: the acknowledgement of a request completed on the escalation branch
\* names the ticket inserted for that request: its reference is the number
\* of a ticket stored for the message, and it shows that ticket's priority,
\* the classified category and the escalation reasons.
C23_AckNamesTheTicket ==
    (pc = "END" /\ state.escalate) =>
        \E id \in DOMAIN TICKETS_TABLE :
            LET ticket == TICKETS_TABLE[id]
                ack == state.response
            IN  /\ ticket.customer_message = state.customer_message
                /\ ack.reference = id.number
                /\ "priority" \in DOMAIN ack
                /\ ack["priority"] = ticket.priority
                /\ ack.issue_type = title(state.issue_type)
                /\ ack.escalation_reason = state.escalation_reason

\* C24: the acknowledgement is the same in every process: whatever the hash
\* salt of the process, escalate_to_human writes for a state the response
\* that the process with salt 7 writes for it, reference included.
C24_AckSameInEveryProcess ==
    pc = "END" =>
        state.response =
            escalate_to_human(state, str_hash(7, state.customer_message))

(***************************************************************************)
(* database.py: the query functions and insert_support_ticket called on    *)
(* their own, in any order.                                                *)
(***************************************************************************)
MaxKeywords == 2

Order99999 == <<"9", "9", "9", "9", "9">>

\* the order identifiers the query functions are called with: two stored
\* ones, one that is not stored, the sentinel of handle_delivery and ""
OrderIds == {Order12345, Order67890, Order99999, UNKNOWN, <<>>}

card == <<"c", "a", "r", "d">>
refund == <<"r", "e", "f", "u", "n", "d">>

\* the words the keyword lists are made of: tags of three articles and a
\* word that is no tag
KeywordPool == {crash, login, checkout, card, refund}

\* the keyword lists query_kb_article is called with
KeywordLists == UNION {[1..n -> KeywordPool] : n \in 0..MaxKeywords}

InitDatabase ==
    /\ state = initial_state(MsgGeneral)
    /\ pc = "database"
    /\ inv = NoActivation
    /\ llm_text = <<>>
    /\ error = NoFailure
    /\ trace = <<>>
    /\ requests = 1
    /\ llm_invokers = {}
    /\ TICKETS_TABLE = NoTickets
    /\ inserted = <<>>
    /\ cancelled = FALSE
    /\ meter = Unmetered
    /\ hash_salt = AnySalt
    /\ database = Tables
    /\ db_result = NoQuery

\* a query function is called and returns
Returns(name, order_id, keywords, result) ==
    /\ pc = "database"
    /\ LET r == Lookup(database, result)
       IN  /\ database' = r.db
           /\ db_result' = Query(name, order_id, keywords, r.result)
    /\ UNCHANGED <<state, pc, inv, llm_text, error, trace, requests>>
    /\ UNCHANGED <<llm_invokers, TICKETS_TABLE, inserted, cancelled, meter, hash_salt>>

QueryOrderById(order_id) ==
    \E s \in RandomStatuses, c \in RandomCarriers :
        Returns("query_order_by_id", order_id, <<>>,
                query_order_by_id(database, order_id,
                                  [status |-> s, carrier |-> c]))

QueryRefundPolicy ==
    Returns("query_refund_policy", <<>>, <<>>, query_refund_policy(database))

QueryRefundEligibility(order_id) ==
    Returns("query_refund_eligibility", order_id, <<>>,
            query_refund_eligibility(database, order_id))

QueryKbArticle(keywords) ==
    Returns("query_kb_article", <<>>, keywords,
            query_kb_article(database, keywords))

QueryFaqs == Returns("query_faqs", <<>>, <<>>, query_faqs(database))

NextDatabase ==
    \/ \E order_id \in OrderIds : QueryOrderById(order_id)
    \/ QueryRefundPolicy
    \/ \E order_id \in OrderIds : QueryRefundEligibility(order_id)
    \/ \E keywords \in KeywordLists : QueryKbArticle(keywords)
    \/ QueryFaqs
    \/ \E n \in {TICKET_NUMBER_MIN, TICKET_NUMBER_MAX} :
          InsertSupportTicket(MsgShout, "refund", n)

SpecDatabase == InitDatabase /\ [][NextDatabase]_vars

\* the number of the keywords that are tags of the article
Overlap(article, keywords) ==
    Cardinality({i \in DOMAIN keywords : keywords[i] \in Range(article.tags)})

\* the list names each keyword once
IsKeywordSet(keywords) ==
    \A i, j \in DOMAIN keywords : keywords[i] = keywords[j] => i = j

LookupReturned == db_result' # db_result

\* C29: a call of query_order_by_id, query_refund_policy,
\* query_refund_eligibility, query_kb_article or query_faqs leaves every
\* table as it was, for stored and for unknown identifiers; a step that
\* changes the store is a call of insert_support_ticket, and it changes the
\* ticket table only.
C29_OnlyInsertChangesTheStore ==
    [][/\ LookupReturned => (database' = database /\ TICKETS_TABLE' = TICKETS_TABLE)
       /\ (database' # database \/ TICKETS_TABLE' # TICKETS_TABLE) =>
             /\ inserted' # inserted
             /\ database' = database
             /\ db_result' = db_result]_vars

\* an order that is not stored was looked up after a ticket was inserted,
\* and the tables other than the ticket table are as loaded
C29_Witness ==
    /\ db_result.query = "query_order_by_id"
    /\ db_result.order_id = Order99999
    /\ db_result.result.data.customer_id = "CUST-UNKNOWN"
    /\ Len(inserted) = 1
    /\ TICKETS_TABLE # NoTickets
    /\ database = Tables

MsgTwoRuns ==
    <<"O", "r", "d", "e", "r", " ", "1", "2", "3", " ", "o", "r", " ", "#",
      "4", "5", "6", "7", "8", ",", " ", "n", "o", "t", " ", "9", "9", "9",
      "9", "9">>

\* keywords of the payment family that handle_technical does not test: "My card was declined"
MsgCard ==
    <<"M", "y", " ", "c", "a", "r", "d", " ", "w", "a", "s", " ", "d", "e",
      "c", "l", "i", "n", "e", "d">>

\* keywords of the login and of the payment family: "Login fails at payment checkout"
MsgLoginPay ==
    <<"L", "o", "g", "i", "n", " ", "f", "a", "i", "l", "s", " ", "a", "t",
      " ", "p", "a", "y", "m", "e", "n", "t", " ", "c", "h", "e", "c", "k",
      "o", "u", "t">>

\* trigger terms out of the order of the list, one twice, one inside a longer word: "I reported it to your manager, MANAGER! I will sue"
MsgReported ==
    <<"I", " ", "r", "e", "p", "o", "r", "t", "e", "d", " ", "i", "t", " ",
      "t", "o", " ", "y", "o", "u", "r", " ", "m", "a", "n", "a", "g", "e",
      "r", ",", " ", "M", "A", "N", "A", "G", "E", "R", "!", " ", "I", " ",
      "w", "i", "l", "l", " ", "s", "u", "e">>

HandlerMessages ==
    Messages \cup {MsgTwoRuns, MsgCard, MsgLoginPay, MsgReported}

InitHandlers ==
    /\ \E m \in HandlerMessages, it \in valid_types,
          confidence \in {FALLBACK_CONFIDENCE, DEFAULT_CONFIDENCE} :
          LET st == [initial_state(m) EXCEPT !.issue_type = it,
                                            !.confidence = confidence]
          IN  /\ state = st
              /\ pc = route_by_issue_type(st)
              /\ trace = <<"classify_issue", route_by_issue_type(st)>>
    /\ inv = NoActivation
    /\ llm_text = <<>>
    /\ error = NoFailure
    /\ requests = 1
    /\ llm_invokers = {"classify_issue"}
    /\ TICKETS_TABLE = NoTickets
    /\ inserted = <<>>
    /\ cancelled = FALSE
    /\ meter = Unmetered
    /\ hash_salt = AnySalt
    /\ database = Tables
    /\ db_result = NoQuery

NextHandlers ==
    \/ HandleDelivery
    \/ HandleRefund
    \/ HandleTechnical
    \/ HandleGeneral
    \/ CheckEscalation

SpecHandlers == InitHandlers /\ [][NextHandlers]_vars

\* the keys of a handler context that hold records
DataKeys(handler_context) == {handler_context.data_key}

\* C25: the handler context the refund handler produces holds a refund
\* policy record and a refund eligibility record, the eligibility record
\* being the one of the order identifier found in the message, or of a fixed
\* identifier when the message has none.
C25_RefundContextHasPolicyAndEligibility ==
    state.handler_context.handler = "refund" =>
        /\ {"refund_policy", "refund_eligibility"} \subseteq
              DataKeys(state.handler_context)
        /\ state.handler_context.order_id # <<>>
        /\ SearchOrderId(state.customer_message) # <<>> =>
              state.handler_context.order_id =
                  SearchOrderId(state.customer_message)

\* four digits in a row start at position i of s
FourDigitsAt(s, i) ==
    /\ i + 3 <= Len(s)
    /\ \A k \in 0..3 : s[i + k] \in Digits

\* the first run of four or more digits of s, which s has
FirstLongRun(s) ==
    LET first == CHOOSE i \in 1..Len(s) :
                    /\ FourDigitsAt(s, i)
                    /\ \A j \in 1..(i - 1) : ~FourDigitsAt(s, j)
        last == CHOOSE j \in first..Len(s) :
                    /\ \A k \in first..j : s[k] \in Digits
                    /\ j = Len(s) \/ s[j + 1] \notin Digits
    IN  SubSeq(s, first, last)

\* C26: the delivery handler sets the order identifier of its handler
\* context to the first run of four or more digits of the message, without
\* a leading #, and to the sentinel UNKNOWN when the message has no such
\* run, so never to a run of fewer than four digits; for "Where is my order
\* #12345?" the identifier is 12345.
C26_DeliveryOrderIdIsFirstLongRun ==
    state.handler_context.handler = "delivery" =>
        LET s == state.customer_message
            order_id == state.handler_context.order_id
        IN  /\ IF \E i \in 1..Len(s) : FourDigitsAt(s, i)
               THEN /\ order_id = FirstLongRun(s)
                    /\ Len(order_id) >= 4
                    /\ \A i \in 1..Len(order_id) : order_id[i] \in Digits
               ELSE order_id = UNKNOWN
            /\ s = MsgDelivery => order_id = Order12345

\* the delivery handler ran on a message with a run of three digits before
\* a run of five and took the run of five
C26_Witness ==
    /\ state.handler_context.handler = "delivery"
    /\ state.customer_message = MsgTwoRuns
    /\ state.handler_context.order_id = <<"4", "5", "6", "7", "8">>

\* the keywords of the four families: crash, crashing; login, password,
\* locked out; payment, checkout, card, declined; error, bug, glitch
FamilyKeywords ==
    <<crash, crashing,
      login, password, <<"l", "o", "c", "k", "e", "d", " ", "o", "u", "t">>,
      payment, checkout, card, <<"d", "e", "c", "l", "i", "n", "e", "d">>,
      <<"e", "r", "r", "o", "r">>, <<"b", "u", "g">>,
      <<"g", "l", "i", "t", "c", "h">> >>

\* the keywords of the families that occur in the message in lower case
KeywordOccurs(customer_message, keyword) ==
    Contains(lower(customer_message), keyword)

MatchedKeywords(customer_message) ==
    LET Occurs(keyword) == KeywordOccurs(customer_message, keyword)
    IN  SelectSeq(FamilyKeywords, Occurs)

\* C28: the article the technical handler puts in its handler context is
\* the article query_kb_article returns for the keywords of the four
\* families that occur in the message in lower case.
C28_TechnicalArticleIsTheLookupResult ==
    state.handler_context.handler = "technical" =>
        state.handler_context.kb_title =
            query_kb_article(database,
                             MatchedKeywords(state.customer_message)).data.title

\* the nodes of the escalation branch after a classification as general
FallbackPath ==
    <<"classify_issue", "handle_general", "check_escalation", "escalate_to_human">>

\* classify_issue returned general with the fallback confidence
ResolvedToFallback ==
    /\ Classified
    /\ state.issue_type = "general"
    /\ state.confidence = FALLBACK_CONFIDENCE

\* C31: a request whose classification resolves to general/0.3 is handled by
\* the general handler, is escalated by check_escalation and ends on the
\* escalation branch; and a text of the model that gives no usable category
\* never leads to generate_response nor to a second model invocation.
C31_MalformedOutputEndsInEscalation ==
    /\ ResolvedToFallback =>
          /\ error = NoFailure
          /\ \E n \in 1..Len(FallbackPath) : trace = SubSeq(FallbackPath, 1, n)
          /\ EscalationChecked => state.escalate
          /\ pc = "END" => trace = FallbackPath
          /\ llm_invokers = {"classify_issue"}
    /\ (TextReturned /\ CategoryUnusable(llm_text)) =>
          /\ pc # "generate_response"
          /\ "generate_response" \notin Range(trace)
          /\ llm_invokers \subseteq {"classify_issue"}

\* the sum of the numbers of a sequence
RECURSIVE SumOf(_)
SumOf(s) == IF s = <<>> THEN 0 ELSE Head(s) + SumOf(Tail(s))

\* C32: the retry budget belongs to the call of invoke_llm_with_retry, not
\* to the request: the call made for generate_response has max_retries
\* retries and starts its backoff at initial_delay whatever the call made
\* for classify_issue used up.  A call invokes the model at most
\* max_retries + 1 times and sleeps at most max_retries times, for
\* initial_delay, 2 * initial_delay, ..., hence for at most
\* initial_delay * (2^max_retries - 1) in all; a request invokes the model
\* at most 2 * (max_retries + 1) times and sleeps at most 2 * max_retries
\* times.
C32_RetryBudgetPerCall ==
    /\ meter.invocations <= 2 * (DEFAULT_MAX_RETRIES + 1)
    /\ meter.sleeps <= 2 * DEFAULT_MAX_RETRIES
    /\ inv.status # "idle" =>
          /\ inv.max_retries = DEFAULT_MAX_RETRIES
          /\ inv.initial_delay = DEFAULT_INITIAL_DELAY
          /\ Len(inv.calls) <= DEFAULT_MAX_RETRIES + 1
          /\ Len(inv.sleeps) <= DEFAULT_MAX_RETRIES
          /\ \A i \in 1..Len(inv.sleeps) :
                inv.sleeps[i] = DEFAULT_INITIAL_DELAY * (2 ^ (i - 1))
          /\ SumOf(inv.sleeps) <=
                DEFAULT_INITIAL_DELAY * ((2 ^ DEFAULT_MAX_RETRIES) - 1)
    /\ (inv.status # "idle" /\ inv.caller = "generate_response") =>
          /\ meter.invocations - Len(inv.calls) \in 1..(DEFAULT_MAX_RETRIES + 1)
          /\ meter.sleeps - Len(inv.sleeps) \in 0..DEFAULT_MAX_RETRIES

\* the classification call used all its retries, and the response call is
\* in its final attempt after sleeping max_retries times from initial_delay
C32_Witness ==
    /\ inv.caller = "generate_response"
    /\ inv.status = "running"
    /\ inv.sleeps = <<DEFAULT_INITIAL_DELAY, 2 * DEFAULT_INITIAL_DELAY,
                      4 * DEFAULT_INITIAL_DELAY>>
    /\ meter.sleeps = 2 * DEFAULT_MAX_RETRIES
    /\ meter.invocations = 2 * DEFAULT_MAX_RETRIES + 1

\* the characters of kw stand in s from position i on
OccursAt(s, kw, i) ==
    \A k \in 1..Len(kw) : i + k - 1 <= Len(s) /\ s[i + k - 1] = kw[k]

\* kw is a substring of s
IsSubstring(s, kw) == \E i \in 1..Len(s) : OccursAt(s, kw, i)

\* the place of a trigger term in the trigger list
PlaceInList(kw) ==
    CHOOSE p \in DOMAIN escalation_keywords : escalation_keywords[p] = kw

\* C33: the keyword trigger of check_escalation fires exactly when a term
\* of the trigger list is a substring of the message in lower case, inside
\* a longer word too; the reason names exactly the terms that occur, in the
\* order of the trigger list and each once, whatever their order and number
\* of occurrences in the message.
C33_KeywordTriggerMatchesSubstrings ==
    EscalationChecked =>
        LET s == lower(state.customer_message)
            reasons == state.escalation_reason
            fired == {i \in DOMAIN reasons :
                         reasons[i].kind = "Sensitive keywords detected"}
        IN  /\ (fired # {}) <=>
                  \E p \in DOMAIN escalation_keywords :
                      IsSubstring(s, escalation_keywords[p])
            /\ Cardinality(fired) <= 1
            /\ fired # {} => state.escalate
            /\ \A i \in fired :
                  LET found == reasons[i].keywords
                  IN  /\ \A p \in DOMAIN escalation_keywords :
                            IsSubstring(s, escalation_keywords[p]) <=>
                                \E j \in DOMAIN found :
                                    found[j] = escalation_keywords[p]
                      /\ \A j \in DOMAIN found :
                            \E p \in DOMAIN escalation_keywords :
                                found[j] = escalation_keywords[p]
                      /\ \A j, k \in DOMAIN found :
                            j < k => PlaceInList(found[j]) < PlaceInList(found[k])

\* check_escalation ran on a message that has "reported", then "manager"
\* twice, then "sue", and named sue, manager and report in that order
C33_Witness ==
    /\ EscalationChecked
    /\ state.customer_message = MsgReported
    /\ state.confidence >= LOW_CONFIDENCE_THRESHOLD
    /\ Len(state.escalation_reason) = 1
    /\ state.escalation_reason[1].keywords =
          << <<"s", "u", "e">>,
             <<"m", "a", "n", "a", "g", "e", "r">>,
             <<"r", "e", "p", "o", "r", "t">> >>

\* check_escalation on a request with this message and this confidence
EscalationOf(customer_message, confidence) ==
    check_escalation([initial_state(customer_message) EXCEPT
                         !.confidence = confidence])

\* the reasons hold the reason of the keyword trigger
NamesKeywords(reasons) ==
    \E i \in DOMAIN reasons : reasons[i].kind = "Sensitive keywords detected"

\* C34: a message that insert_support_ticket gives priority high fires the
\* keyword trigger of check_escalation, so that it escalates whatever the
\* confidence of its classification: sue, legal and lawyer are terms of the
\* trigger list and both functions look for them in the message in lower
\* case.
C34_HighPriorityMessageEscalates ==
    /\ \A i \in DOMAIN priority_keywords :
          \E p \in DOMAIN escalation_keywords :
              escalation_keywords[p] = priority_keywords[i]
    /\ \A id \in DOMAIN TICKETS_TABLE :
          TICKETS_TABLE[id].priority = "high" =>
              \A confidence \in {FALLBACK_CONFIDENCE, DEFAULT_CONFIDENCE, 1000} :
                  LET u == EscalationOf(TICKETS_TABLE[id].customer_message,
                                        confidence)
                  IN  /\ u.escalate
                      /\ NamesKeywords(u.escalation_reason)

\* a ticket of priority high is stored for the message that has "sue"
\* inside "issue", with a reason that names the keyword trigger
C34_Witness ==
    \E id \in DOMAIN TICKETS_TABLE :
        /\ TICKETS_TABLE[id].customer_message = MsgIssue
        /\ TICKETS_TABLE[id].priority = "high"
        /\ NamesKeywords(TICKETS_TABLE[id].escalation_reason)
        /\ EscalationOf(MsgIssue, 1000).escalate

====
